---- MODULE Spec2Model ----
(***************************************************************************)
(* Directory Monitor (src/main.py): the in-memory catalog dir_db, the      *)
(* change log, the watchdog observer and the three request handlers        *)
(* register_directory, verify_changes and list_files, together with the    *)
(* filesystem they read.                                                   *)
(*                                                                         *)
(* A path is the sequence of its components; an absolute path starts with  *)
(* the component "/", a relative one does not, and "" is the empty         *)
(* sequence.  A dict is the sequence of its <<key, value>> items in        *)
(* insertion order, which is the order Python iterates it in.              *)
(*                                                                         *)
(* Spec takes each request handler and each dispatch of a watcher event    *)
(* as one step.                                                            *)
(***************************************************************************)
EXTENDS Integers, Sequences, FiniteSets, TLC

VARIABLES
    fs,          \* file -> content (0: the file does not exist)
    unreadable,  \* existing files that open() refuses
    dirs,        \* the directories that exist, among Dirs
    nfs,         \* number of filesystem changes made so far
    dir_db,      \* main.py:13   dir_name -> dict(file_path -> hash)
    change_log,  \* main.py:14
    observer,    \* main.py:17   "none", "running", "crashed" or "stopped"
    watches,     \* root path -> number of ChangeHandler objects scheduled on it
    events,      \* modification events queued in the observer, not yet dispatched
    resp,        \* the step taken last and, for a handler, what it returned
    root_of,     \* history: dir_name -> dir_path of the latest successful register
    call         \* the request handler that is part-way through, with its locals

vars == <<fs, unreadable, dirs, nfs, dir_db, change_log, observer, watches,
          events, resp, root_of, call>>

---------------------------------------------------------------------------
(* Bounds of the model *)

MaxContent == 2
MaxFsOps == 2
MaxRegs == 2
MaxLog == 11

---------------------------------------------------------------------------
(* The filesystem the model runs on *)

Cwd == <<"/", "srv">>
R1 == <<"/", "r", "proj">>
S == <<"/", "r", "proj", "sub">>
R2 == <<"/", "q", "proj">>

F_b == <<"/", "r", "proj", "b.bin">>
F_c == <<"/", "r", "proj", "c.txt">>
F_a == <<"/", "r", "proj", "sub", "a.txt">>
F_m == <<"/", "srv", "main.py">>

\* Every file of the model, in the order Path.rglob('*') yields them: the
\* entries of a directory come before the entries of its subdirectories.
AllFiles == <<F_b, F_c, F_a, F_m>>

Files == {AllFiles[i] : i \in 1..Len(AllFiles)}

\* The files that are written and removed while the program runs; the
\* program's own source file in Cwd stays as it is, and R2 stays empty.
Mutable == {F_b, F_a}

\* The files written between the lines of a handler: both lie in R1 itself,
\* where on_modified takes them for files of "proj".
ConcMutable == {F_b, F_c}

\* The files whose permissions change, and the directories that are removed.
ChmodFiles == {F_b}

Removable == {R1}

\* Directories that can be removed and created; Cwd and the parents of the
\* roots always exist.
Dirs == {R1, S, R2}

\* The directories register is called with.
Roots == {R1, S, R2}

\* The arguments register is called with: the roots as they are and as
\* normpath has to clean them, a path that does not exist and a file.
RegInputs ==
    { R1,
      <<"/", "r", "proj", "">>,
      <<"/", "q", ".", "proj">>,
      <<"/", "x", "proj">>,
      F_b }

\* The identifiers verify and list are called with.
Ids == {"proj", "nope"}

---------------------------------------------------------------------------
(* os.path *)

IsPrefix(a, b) == Len(a) <= Len(b) /\ SubSeq(b, 1, Len(a)) = a

Under(base, f) == IsPrefix(base, f) /\ Len(f) > Len(base)

IsAbs(p) == Len(p) > 0 /\ p[1] = "/"

\* What the operating system makes of a path string: relative to the cwd.
Resolve(p) == IF IsAbs(p) THEN p ELSE Cwd \o p

IsCurDirOrEmpty(c) == c \in {"", "."}

Normpath(p) == SelectSeq(p, LAMBDA c : ~IsCurDirOrEmpty(c))

Dirname(p) == IF Len(p) = 0 THEN <<>> ELSE SubSeq(p, 1, Len(p) - 1)

Basename(p) == IF Len(p) = 0 THEN "" ELSE p[Len(p)]

\* os.path.isdir: Cwd and the directories of dirs are the ones that exist.
IsDir(p) == Resolve(p) \in dirs \cup {Cwd}

IsFile(p) == Resolve(p) \in Files /\ fs[Resolve(p)] # 0

---------------------------------------------------------------------------
(* dict *)

None == <<>>

Keys(d) == [i \in 1..Len(d) |-> d[i][1]]

KeySet(d) == {d[i][1] : i \in 1..Len(d)}

Has(d, k) == k \in KeySet(d)

Get(d, k) ==
    IF Has(d, k) THEN d[CHOOSE i \in 1..Len(d) : d[i][1] = k][2] ELSE None

Put(d, k, v) ==
    IF Has(d, k)
    THEN [i \in 1..Len(d) |-> IF d[i][1] = k THEN <<k, v>> ELSE d[i]]
    ELSE Append(d, <<k, v>>)

SeqSet(s) == {s[i] : i \in 1..Len(s)}

---------------------------------------------------------------------------
(* hash_file *)

\* The SHA-256 digest of a content: distinct contents, distinct digests.
Digest(c) == <<"sha256", c>>

\* open(filepath, "rb") raises for a missing and for an unreadable file.
HashRaises(p) == ~IsFile(p) \/ Resolve(p) \in unreadable

hash_file(p) == Digest(fs[Resolve(p)])

---------------------------------------------------------------------------
(* The scan loop of register_directory and verify_changes *)

RelKey(dir_path, f) ==
    dir_path \o SubSeq(f, Len(Resolve(dir_path)) + 1, Len(f))

\* One iteration of the scan loop, on the i-th path rglob yields.
ScanOne(dir_path, i, acc) ==
    LET f == AllFiles[i]
        k == RelKey(dir_path, f)
    IN  IF Under(Resolve(dir_path), f) /\ IsFile(f) /\ ~HashRaises(f)
        THEN Put(acc, k, hash_file(k))
        ELSE acc

\* ScanFrom with a hash_file that returns None where it should raise: the file
\* is stored all the same.
RECURSIVE ScanFromKeepsFailed(_, _, _)
ScanFromKeepsFailed(dir_path, i, acc) ==
    IF i > Len(AllFiles) THEN acc
    ELSE LET f == AllFiles[i]
             k == RelKey(dir_path, f)
         IN  ScanFromKeepsFailed(dir_path, i + 1,
                 IF Under(Resolve(dir_path), f) /\ IsFile(f)
                 THEN Put(acc, k, IF HashRaises(f) THEN None ELSE hash_file(k))
                 ELSE acc)

RECURSIVE ScanFrom(_, _, _)
ScanFrom(dir_path, i, acc) ==
    IF i > Len(AllFiles) THEN acc
    ELSE LET f == AllFiles[i]
             k == RelKey(dir_path, f)
         IN  ScanFrom(dir_path, i + 1,
                 IF Under(Resolve(dir_path), f) /\ IsFile(f) /\ ~HashRaises(f)
                 THEN Put(acc, k, hash_file(k))
                 ELSE acc)

\* The loop run on a dict that starts as acc.
ScanInto(dir_path, acc) == ScanFrom(dir_path, 1, acc)

Scan(dir_path) == ScanInto(dir_path, <<>>)

---------------------------------------------------------------------------
(* What a step leaves in resp *)

Step(op) ==
    [op |-> op, id |-> "", path |-> <<>>, status |-> 0, error |-> "",
     directory |-> <<>>, files_registered |-> 0,
     added |-> <<>>, deleted |-> <<>>, modified |-> <<>>,
     recent_changes |-> <<>>, total_files |-> 0, files |-> <<>>]

\* The locals of a handler that is part-way through: its position pc, the id
\* and the directory it works on, the index i of its scan loop, verify's
\* current, added and deleted; log0 is the length the log had and prev the
\* snapshot the id had when the handler began.
Locals(op) ==
    [op |-> op, pc |-> "", id |-> "", arg |-> <<>>, path |-> <<>>, i |-> 0,
     current |-> <<>>, added |-> <<>>, deleted |-> <<>>, log0 |-> 0,
     prev |-> <<>>]

\* No handler is part-way through.
Idle == Locals("idle")

SetDb(db, id, d) == [x \in (DOMAIN db) \cup {id} |-> IF x = id THEN d ELSE db[x]]

---------------------------------------------------------------------------
(* ChangeHandler.on_modified and its dispatch by the observer thread *)

FileEvent(f) == [src_path |-> f, is_directory |-> FALSE]

DirEvent(d) == [src_path |-> d, is_directory |-> TRUE]

\* One call of on_modified on the catalog db and the log: what it leaves, and
\* whether hash_file raised out of it.
on_modified(e, db, log) ==
    IF e.is_directory THEN [db |-> db, log |-> log, raised |-> FALSE]
    ELSE LET filepath == e.src_path
             dir_name == Basename(Dirname(filepath))
         IN  IF dir_name \notin DOMAIN db
             THEN [db |-> db, log |-> log, raised |-> FALSE]
             ELSE IF HashRaises(filepath)
             THEN [db |-> db, log |-> log, raised |-> TRUE]
             ELSE LET new_hash == hash_file(filepath)
                  IN  IF Get(db[dir_name], filepath) # new_hash
                      THEN [db |-> [db EXCEPT ![dir_name] = Put(@, filepath, new_hash)],
                            log |-> Append(log, <<"MODIFIED", filepath>>),
                            raised |-> FALSE]
                      ELSE [db |-> db, log |-> log, raised |-> FALSE]

\* A recursive watch on root r reports the files below r and r itself.
Covers(r, e) ==
    /\ watches[r] > 0
    /\ Under(r, e.src_path) \/ (e.is_directory /\ r = e.src_path)

Watched(e) == \E r \in Roots : Covers(r, e)

Count(r, e) == IF Covers(r, e) THEN watches[r] ELSE 0

\* Every handler scheduled on a watch that covers the event is called.
HandlerCount(e) == Count(R1, e) + Count(S, e) + Count(R2, e)

RECURSIVE Dispatch(_, _, _)
Dispatch(e, k, st) ==
    IF k = 0 \/ st.raised THEN st
    ELSE Dispatch(e, k - 1, on_modified(e, st.db, st.log))

Emit(es) == IF observer = "running" THEN events \cup {e \in es : Watched(e)} ELSE events

---------------------------------------------------------------------------
(* register_directory *)

\* The handlers scheduled so far, one by each successful register.
Scheduled == watches[R1] + watches[S] + watches[R2]

RegisterOk(arg, dir_path) ==
    LET dir_name == Basename(dir_path)
        snapshot == ScanInto(dir_path, <<>>)
    IN  /\ Scheduled < MaxRegs
        /\ dir_db' = SetDb(dir_db, dir_name, snapshot)
        /\ watches' = [watches EXCEPT ![dir_path] = @ + 1]
        /\ resp' = [Step("register") EXCEPT !.path = arg, !.status = 200,
                        !.directory = dir_path,
                        !.files_registered = Len(snapshot)]
        /\ root_of' = SetDb(root_of, dir_name, dir_path)
        /\ UNCHANGED <<fs, unreadable, dirs, nfs, change_log, observer, events>>

RegisterInvalid(arg) ==
    /\ resp' = [Step("register") EXCEPT !.path = arg, !.status = 400,
                    !.error = "Invalid directory path"]
    /\ UNCHANGED <<fs, unreadable, dirs, nfs, dir_db, change_log, observer,
                   watches, events, root_of>>

\* register_directory with line 58 moved above the isdir test of line 54.
RegisterResetsFirst(arg) ==
    /\ observer \in {"running", "crashed"}
    /\ UNCHANGED call
    /\ LET dir_path == Normpath(arg)
       IN  IF ~IsDir(dir_path)
           THEN /\ resp' = [Step("register") EXCEPT !.path = arg, !.status = 400,
                               !.error = "Invalid directory path"]
                /\ dir_db' = SetDb(dir_db, Basename(dir_path), <<>>)
                /\ UNCHANGED <<fs, unreadable, dirs, nfs, change_log, observer,
                               watches, events, root_of>>
           ELSE RegisterOk(arg, dir_path)

Register(arg) ==
    /\ observer \in {"running", "crashed"}
    /\ UNCHANGED call
    /\ LET dir_path == Normpath(arg)
       IN  IF ~IsDir(dir_path) THEN RegisterInvalid(arg)
           ELSE RegisterOk(arg, dir_path)

---------------------------------------------------------------------------
(* verify_changes *)

Added(current, original) ==
    SelectSeq(Keys(current), LAMBDA f : ~Has(original, f))

Deleted(current, original) ==
    SelectSeq(Keys(original), LAMBDA f : ~Has(current, f))

\* Modified without the test "f in original", reading original with get().
ModifiedNoMembership(current, original) ==
    SelectSeq(Keys(current), LAMBDA f : Get(current, f) # Get(original, f))

Modified(current, original) ==
    SelectSeq(Keys(current),
              LAMBDA f : Has(original, f) /\ Get(current, f) # Get(original, f))

RecentN == 10

\* change_log[:10] in place of change_log[-10:]
FirstN(s, n) == IF Len(s) <= n THEN s ELSE SubSeq(s, 1, n)

LastN(s, n) == IF Len(s) <= n THEN s ELSE SubSeq(s, Len(s) - n + 1, Len(s))

\* Lines 86-87: the directory of the first key of the stored dict, "" if none.
InferredDir(original) ==
    LET first == IF Len(original) > 0 THEN original[1][1] ELSE <<>>
    IN  IF first # <<>> THEN Dirname(first) ELSE <<>>

\* The lookup of an unknown id done with setdefault: it leaves an entry behind.
NotRegisteredSetsDefault(op, id) ==
    /\ resp' = [Step(op) EXCEPT !.id = id, !.status = 404,
                    !.error = "Directory not registered"]
    /\ dir_db' = SetDb(dir_db, id, <<>>)
    /\ UNCHANGED <<fs, unreadable, dirs, nfs, change_log, observer,
                   watches, events, root_of>>

NotRegistered(op, id) ==
    /\ resp' = [Step(op) EXCEPT !.id = id, !.status = 404,
                    !.error = "Directory not registered"]
    /\ UNCHANGED <<fs, unreadable, dirs, nfs, dir_db, change_log, observer,
                   watches, events, root_of>>

\* verify_changes emptying the log once it has answered from it.
VerifyOkClearsLog(dir_name) ==
    LET original == dir_db[dir_name]
        dir_path == InferredDir(original)
        current == Scan(dir_path)
    IN  /\ dir_db' = [dir_db EXCEPT ![dir_name] = current]
        /\ resp' = [Step("verify") EXCEPT !.id = dir_name, !.status = 200,
                        !.directory = dir_path,
                        !.added = Added(current, original),
                        !.deleted = Deleted(current, original),
                        !.modified = Modified(current, original),
                        !.recent_changes = LastN(change_log, RecentN)]
        /\ change_log' = <<>>
        /\ UNCHANGED <<fs, unreadable, dirs, nfs, observer, watches,
                       events, root_of>>

VerifyOk(dir_name) ==
    LET original == dir_db[dir_name]
        dir_path == InferredDir(original)
        current == Scan(dir_path)
    IN  /\ dir_db' = [dir_db EXCEPT ![dir_name] = current]
        /\ resp' = [Step("verify") EXCEPT !.id = dir_name, !.status = 200,
                        !.directory = dir_path,
                        !.added = Added(current, original),
                        !.deleted = Deleted(current, original),
                        !.modified = Modified(current, original),
                        !.recent_changes = LastN(change_log, RecentN)]
        /\ UNCHANGED <<fs, unreadable, dirs, nfs, change_log, observer, watches,
                       events, root_of>>

Verify(dir_name) ==
    /\ observer \in {"running", "crashed"}
    /\ UNCHANGED call
    /\ IF dir_name \notin DOMAIN dir_db THEN NotRegistered("verify", dir_name)
       ELSE VerifyOk(dir_name)

---------------------------------------------------------------------------
(* list_files *)

\* Python's order of the file names of the model.
NameRank(n) ==
    CASE n = "a.txt" -> 1
      [] n = "b.bin" -> 2
      [] n = "c.txt" -> 3
      [] n = "main.py" -> 4
      [] OTHER -> 0

TextNames == {"a.txt", "c.txt"}

\* os.stat raises for a file that is gone; permissions of the file do not matter.
StatRaises(p) == ~IsFile(p)

Detail(item) ==
    [filename |-> Basename(item[1]), path |-> item[1], hash |-> item[2],
     size_bytes |-> fs[Resolve(item[1])],
     is_text |-> Basename(item[1]) \in TextNames]

RECURSIVE FileDetails(_, _)
FileDetails(d, i) ==
    IF i > Len(d) THEN <<>>
    ELSE (IF StatRaises(d[i][1]) THEN <<>> ELSE <<Detail(d[i])>>)
         \o FileDetails(d, i + 1)

\* sorted() is stable: x goes behind the entries that do not sort after it.
InsertByName(s, x) ==
    LET n == Cardinality({i \in 1..Len(s) :
                            NameRank(s[i].filename) <= NameRank(x.filename)})
    IN  SubSeq(s, 1, n) \o <<x>> \o SubSeq(s, n + 1, Len(s))

\* The list returned as it was built, without sorted().
Unsorted(s, i) == s

RECURSIVE SortedByName(_, _)
SortedByName(s, i) ==
    IF i = 0 THEN <<>> ELSE InsertByName(SortedByName(s, i - 1), s[i])

ListOk(dir_name) ==
    LET d == dir_db[dir_name]
        sample_file == IF Len(d) > 0 THEN d[1][1] ELSE None
        dir_path == IF sample_file # None THEN Dirname(sample_file) ELSE <<>>
        file_details == FileDetails(d, 1)
    IN  /\ resp' = IF dir_path = <<>>
                   THEN [Step("list") EXCEPT !.id = dir_name, !.status = 200,
                            !.error = "No files found in directory"]
                   ELSE [Step("list") EXCEPT !.id = dir_name, !.status = 200,
                            !.directory = dir_path,
                            !.total_files = Len(file_details),
                            !.files = SortedByName(file_details, Len(file_details))]
        /\ UNCHANGED <<fs, unreadable, dirs, nfs, dir_db, change_log, observer,
                       watches, events, root_of>>

List(dir_name) ==
    /\ observer \in {"running", "crashed"}
    /\ UNCHANGED call
    /\ IF dir_name \notin DOMAIN dir_db THEN NotRegistered("list", dir_name)
       ELSE ListOk(dir_name)

---------------------------------------------------------------------------
(* The observer: start_monitoring, stop_monitoring and the dispatch thread *)

Startup ==
    /\ observer = "none"
    /\ observer' = "running"
    /\ resp' = Step("startup")
    /\ UNCHANGED <<fs, unreadable, dirs, nfs, dir_db, change_log, watches,
                   events, root_of>>
    /\ UNCHANGED call

\* stop() and join(): the dispatch thread has ended when Shutdown returns;
\* what is still queued stays queued.
Shutdown ==
    /\ observer \in {"running", "crashed"}
    /\ observer' = "stopped"
    /\ resp' = Step("shutdown")
    /\ UNCHANGED <<fs, unreadable, dirs, nfs, dir_db, change_log, watches,
                   events, root_of, call>>

\* A dispatch thread that stop_monitoring has not waited for: it goes on
\* taking events from the queue.
DeliverAfterStop(e) ==
    /\ observer \in {"running", "stopped"}
    /\ e \in events
    /\ LET st == Dispatch(e, HandlerCount(e),
                          [db |-> dir_db, log |-> change_log, raised |-> FALSE])
       IN  /\ dir_db' = st.db
           /\ change_log' = st.log
           /\ observer' = IF st.raised THEN "crashed" ELSE observer
           /\ events' = IF st.raised THEN {} ELSE events \ {e}
           /\ resp' = [Step("event") EXCEPT !.path = e.src_path,
                           !.status = IF st.raised THEN 500 ELSE 0]
    /\ UNCHANGED <<fs, unreadable, dirs, nfs, watches, root_of>>
    /\ UNCHANGED call

\* The dispatch thread takes a queued event and calls the handlers.  An
\* exception out of a handler ends the thread: nothing is dispatched after it.
Deliver(e) ==
    /\ observer = "running"
    /\ e \in events
    /\ LET st == Dispatch(e, HandlerCount(e),
                          [db |-> dir_db, log |-> change_log, raised |-> FALSE])
       IN  /\ dir_db' = st.db
           /\ change_log' = st.log
           /\ observer' = IF st.raised THEN "crashed" ELSE "running"
           /\ events' = IF st.raised THEN {} ELSE events \ {e}
           /\ resp' = [Step("event") EXCEPT !.path = e.src_path,
                           !.status = IF st.raised THEN 500 ELSE 0]
    /\ UNCHANGED <<fs, unreadable, dirs, nfs, watches, root_of>>
    /\ UNCHANGED call

---------------------------------------------------------------------------
(* The filesystem changing under the program *)

ParentExists(f) == Dirname(f) \in dirs \cup {Cwd}

\* The content a write leaves in f: another one than f has, or the same again
\* (f exists and is rewritten as it is).
Written(f, change) ==
    IF fs[f] = 0 THEN 1
    ELSE IF change THEN (fs[f] % MaxContent) + 1
    ELSE fs[f]

Write(f, change) ==
    /\ observer # "none"
    /\ nfs < MaxFsOps
    /\ ParentExists(f)
    /\ fs[f] = 0 => change
    /\ fs' = [fs EXCEPT ![f] = Written(f, change)]
    /\ events' = Emit({FileEvent(f)})
    /\ nfs' = nfs + 1
    /\ resp' = Step("fs")
    /\ UNCHANGED <<unreadable, dirs, dir_db, change_log, observer, watches,
                   root_of>>
    /\ UNCHANGED call

Remove(f) ==
    /\ observer # "none"
    /\ nfs < MaxFsOps
    /\ fs[f] # 0
    /\ fs' = [fs EXCEPT ![f] = 0]
    /\ unreadable' = unreadable \ {f}
    /\ events' = Emit({DirEvent(Dirname(f))})
    /\ nfs' = nfs + 1
    /\ resp' = Step("fs")
    /\ UNCHANGED <<dirs, dir_db, change_log, observer, watches, root_of>>
    /\ UNCHANGED call

\* chmod: the file becomes unreadable, or readable again.
Chmod(f) ==
    /\ observer # "none"
    /\ nfs < MaxFsOps
    /\ fs[f] # 0
    /\ unreadable' = IF f \in unreadable THEN unreadable \ {f}
                     ELSE unreadable \cup {f}
    /\ nfs' = nfs + 1
    /\ resp' = Step("fs")
    /\ UNCHANGED <<fs, dirs, dir_db, change_log, observer, watches, events,
                   root_of>>
    /\ UNCHANGED call

\* rm -r d
RmTree(d) ==
    /\ observer # "none"
    /\ nfs < MaxFsOps
    /\ d \in dirs
    /\ dirs' = {x \in dirs : ~IsPrefix(d, x)}
    /\ fs' = [f \in Files |-> IF Under(d, f) THEN 0 ELSE fs[f]]
    /\ unreadable' = {f \in unreadable : ~Under(d, f)}
    /\ nfs' = nfs + 1
    /\ resp' = Step("fs")
    /\ UNCHANGED <<dir_db, change_log, observer, watches, events, root_of>>
    /\ UNCHANGED call

---------------------------------------------------------------------------
(* The specification *)

Init ==
    /\ fs \in {f \in [Files -> 0..1] : f[F_m] = 1 /\ f[F_c] = 0}
    /\ unreadable = {}
    /\ dirs = Dirs
    /\ nfs = 0
    /\ dir_db = [x \in {} |-> <<>>]
    /\ change_log = <<>>
    /\ observer = "none"
    /\ watches = [r \in Roots |-> 0]
    /\ events = {}
    /\ resp = Step("init")
    /\ root_of = [x \in {} |-> <<>>]
    /\ call = Idle

Next ==
    \/ Startup
    \/ Shutdown
    \/ \E arg \in RegInputs : Register(arg)
    \/ \E id \in Ids : Verify(id)
    \/ \E id \in Ids : List(id)
    \/ \E e \in events : Deliver(e)
    \/ \E f \in Mutable, change \in BOOLEAN : Write(f, change)
    \/ \E f \in Mutable : Remove(f)
    \/ \E f \in ChmodFiles : Chmod(f)
    \/ \E d \in Removable : RmTree(d)

Spec == Init /\ [][Next]_vars

---------------------------------------------------------------------------
(* A long change log: /r/proj and /r/proj/sub are both registered, b.bin is
   rewritten again and again and a.txt now and then, so that the log grows
   past the RecentN entries verify returns. *)

LogInputs == {R1, S}

\* b.bin is written once more; these writes are counted by the log they fill.
Rewrite(f) ==
    /\ observer = "running"
    /\ fs[f] # 0
    /\ events = {}
    /\ Len(change_log) < MaxLog
    /\ fs' = [fs EXCEPT ![f] = Written(f, TRUE)]
    /\ events' = Emit({FileEvent(f)})
    /\ resp' = Step("fs")
    /\ UNCHANGED <<unreadable, dirs, nfs, dir_db, change_log, observer, watches,
                   root_of, call>>

\* The directories are registered before the files change, and verify and the
\* writer of a.txt find the queue of the observer empty.
LogRegister(arg) == change_log = <<>> /\ Register(arg)

LogVerify(dir_name) == events = {} /\ Verify(dir_name)

LogWrite(f) == events = {} /\ Write(f, TRUE)

InitLog ==
    /\ fs = [f \in Files |-> IF f = F_c THEN 0 ELSE 1]
    /\ unreadable = {}
    /\ dirs = Dirs
    /\ nfs = 0
    /\ dir_db = [x \in {} |-> <<>>]
    /\ change_log = <<>>
    /\ observer = "none"
    /\ watches = [r \in Roots |-> 0]
    /\ events = {}
    /\ resp = Step("init")
    /\ root_of = [x \in {} |-> <<>>]
    /\ call = Idle

NextLog ==
    \/ Startup
    \/ \E arg \in LogInputs : LogRegister(arg)
    \/ LogVerify("proj")
    \/ \E e \in events : Deliver(e)
    \/ LogWrite(F_a)
    \/ Rewrite(F_b)

SpecLog == InitLog /\ [][NextLog]_vars

---------------------------------------------------------------------------
(* The handlers line by line: register_directory runs on the event loop,
   verify_changes on a worker thread and on_modified on the observer's thread,
   and no lock is taken, so that the steps of a handler interleave with
   on_modified and with writes to the files.  verify's original is the dict
   dir_db holds for the id (line 84 copies nothing), and register fills the
   dict it has put in dir_db (line 64). *)

ConcInputs == {R1}

\* Lines 53-58: the new, empty dict is in dir_db before the scan begins.
RegisterBegin(arg) ==
    /\ observer \in {"running", "crashed"}
    /\ call = Idle
    /\ Scheduled < MaxRegs
    /\ LET dir_path == Normpath(arg)
           dir_name == Basename(dir_path)
       IN  IF ~IsDir(dir_path) THEN RegisterInvalid(arg) /\ UNCHANGED call
           ELSE /\ dir_db' = SetDb(dir_db, dir_name, <<>>)
                /\ call' = [Locals("register") EXCEPT !.pc = "scan",
                                !.id = dir_name, !.arg = arg, !.path = dir_path,
                                !.i = 1, !.log0 = Len(change_log),
                                !.prev = IF dir_name \in DOMAIN dir_db
                                         THEN dir_db[dir_name] ELSE <<>>]
                /\ resp' = Step("line")
                /\ UNCHANGED <<fs, unreadable, dirs, nfs, change_log, observer,
                               watches, events, root_of>>

\* Lines 61-66, one file.
RegisterScan ==
    /\ call.op = "register" /\ call.pc = "scan"
    /\ call.i <= Len(AllFiles)
    /\ call.id \in DOMAIN dir_db
    /\ dir_db' = [dir_db EXCEPT ![call.id] = ScanOne(call.path, call.i, @)]
    /\ call' = [call EXCEPT !.i = @ + 1]
    /\ resp' = Step("line")
    /\ UNCHANGED <<fs, unreadable, dirs, nfs, change_log, observer, watches,
                   events, root_of>>

\* Lines 69-76.
RegisterEnd ==
    /\ call.op = "register" /\ call.pc = "scan"
    /\ call.i > Len(AllFiles)
    /\ watches' = [watches EXCEPT ![call.path] = @ + 1]
    /\ resp' = [Step("register") EXCEPT !.path = call.arg, !.status = 200,
                    !.directory = call.path,
                    !.files_registered = Len(dir_db[call.id])]
    /\ root_of' = SetDb(root_of, call.id, call.path)
    /\ call' = Idle
    /\ UNCHANGED <<fs, unreadable, dirs, nfs, dir_db, change_log, observer,
                   events>>

\* Lines 80-87.
VerifyBegin(dir_name) ==
    /\ observer \in {"running", "crashed"}
    /\ call = Idle
    /\ IF dir_name \notin DOMAIN dir_db
       THEN NotRegistered("verify", dir_name) /\ UNCHANGED call
       ELSE /\ call' = [Locals("verify") EXCEPT !.pc = "scan", !.id = dir_name,
                            !.path = InferredDir(dir_db[dir_name]), !.i = 1,
                            !.log0 = Len(change_log),
                            !.prev = dir_db[dir_name]]
            /\ resp' = Step("line")
            /\ UNCHANGED <<fs, unreadable, dirs, nfs, dir_db, change_log,
                           observer, watches, events, root_of>>

\* Lines 90-95, one file.
VerifyScan ==
    /\ call.op = "verify" /\ call.pc = "scan"
    /\ call.i <= Len(AllFiles)
    /\ call' = [call EXCEPT !.current = ScanOne(call.path, call.i, @),
                            !.i = @ + 1]
    /\ resp' = Step("line")
    /\ UNCHANGED <<fs, unreadable, dirs, nfs, dir_db, change_log, observer,
                   watches, events, root_of>>

\* Line 98: original is what dir_db holds for the id at this moment.
VerifyAdded ==
    /\ call.op = "verify" /\ call.pc = "scan"
    /\ call.i > Len(AllFiles)
    /\ call' = [call EXCEPT !.pc = "deleted",
                            !.added = Added(call.current, dir_db[call.id])]
    /\ resp' = Step("line")
    /\ UNCHANGED <<fs, unreadable, dirs, nfs, dir_db, change_log, observer,
                   watches, events, root_of>>

\* Line 99.
VerifyDeleted ==
    /\ call.op = "verify" /\ call.pc = "deleted"
    /\ call' = [call EXCEPT !.pc = "modified",
                            !.deleted = Deleted(call.current, dir_db[call.id])]
    /\ resp' = Step("line")
    /\ UNCHANGED <<fs, unreadable, dirs, nfs, dir_db, change_log, observer,
                   watches, events, root_of>>

\* Lines 100-111.
VerifyEnd ==
    /\ call.op = "verify" /\ call.pc = "modified"
    /\ dir_db' = [dir_db EXCEPT ![call.id] = call.current]
    /\ resp' = [Step("verify") EXCEPT !.id = call.id, !.status = 200,
                    !.directory = call.path,
                    !.added = call.added,
                    !.deleted = call.deleted,
                    !.modified = Modified(call.current, dir_db[call.id]),
                    !.recent_changes = LastN(change_log, RecentN)]
    /\ call' = Idle
    /\ UNCHANGED <<fs, unreadable, dirs, nfs, change_log, observer, watches,
                   events, root_of>>

InitConc ==
    /\ fs \in {f \in [Files -> 0..1] : f[F_m] = 1 /\ f[F_b] = 1 /\ f[F_a] = 0}
    /\ unreadable = {}
    /\ dirs = Dirs
    /\ nfs = 0
    /\ dir_db = [x \in {} |-> <<>>]
    /\ change_log = <<>>
    /\ observer = "none"
    /\ watches = [r \in Roots |-> 0]
    /\ events = {}
    /\ resp = Step("init")
    /\ root_of = [x \in {} |-> <<>>]
    /\ call = Idle

NextConc ==
    \/ Startup
    \/ \E arg \in ConcInputs : RegisterBegin(arg)
    \/ RegisterScan
    \/ RegisterEnd
    \/ VerifyBegin("proj")
    \/ VerifyScan
    \/ VerifyAdded
    \/ VerifyDeleted
    \/ VerifyEnd
    \/ \E e \in events : Deliver(e)
    \/ \E f \in ConcMutable, change \in BOOLEAN : Write(f, change)

SpecConc == InitConc /\ [][NextConc]_vars

---------------------------------------------------------------------------
(* Properties *)

\* The regular files below root, and those of them that open() accepts.
FilesUnder(root) == {f \in Files : Under(Resolve(root), f) /\ fs[f] # 0}

ReadableUnder(root) == FilesUnder(root) \ unreadable

NoDuplicates(s) == Cardinality(SeqSet(s)) = Len(s)

VerifyReturned == resp'.op = "verify" /\ resp'.status = 200

\* C1: a verify that compares the stored snapshot old with the rescanned
\* snapshot new returns in added exactly the paths of new that are not in old,
\* in deleted exactly the paths of old that are not in new, and in modified
\* exactly the paths of both whose fingerprints differ; the three lists are
\* pairwise disjoint, repeat no path and hold no path outside old and new.
DiffComplete ==
    [][VerifyReturned =>
         LET old == dir_db[resp'.id]
             new == dir_db'[resp'.id]
             A == SeqSet(resp'.added)
             D == SeqSet(resp'.deleted)
             M == SeqSet(resp'.modified)
         IN  /\ A = KeySet(new) \ KeySet(old)
             /\ D = KeySet(old) \ KeySet(new)
             /\ M = {p \in KeySet(old) \cap KeySet(new) : Get(old, p) # Get(new, p)}
             /\ A \cap D = {} /\ A \cap M = {} /\ D \cap M = {}
             /\ A \cup D \cup M \subseteq KeySet(old) \cup KeySet(new)
             /\ NoDuplicates(resp'.added)
             /\ NoDuplicates(resp'.deleted)
             /\ NoDuplicates(resp'.modified)]_vars

\* C1 witness: a verify has returned a modified path together with a deleted
\* or an added one.
DiffCompleteWitness ==
    /\ resp.op = "verify" /\ resp.status = 200
    /\ resp.modified # <<>>
    /\ resp.added # <<>> \/ resp.deleted # <<>>

\* C2: with nothing happening in between, the verify that follows the
\* register of its id, and the verify that follows such a verify of the same
\* id, return empty added, deleted and modified.
VerifyIdempotent ==
    [][(/\ VerifyReturned
        /\ \/ /\ resp.op = "register" /\ resp.status = 200
              /\ Basename(resp.directory) = resp'.id
           \/ /\ resp.op = "verify" /\ resp.status = 200
              /\ resp.id = resp'.id
              /\ resp.added = <<>> /\ resp.deleted = <<>> /\ resp.modified = <<>>)
       => /\ resp'.added = <<>>
          /\ resp'.deleted = <<>>
          /\ resp'.modified = <<>>]_vars

\* C3: verify rescans the root registered for the id: the snapshot it stores
\* holds exactly the readable regular files under that root, every such file
\* that was not tracked is returned in added, and nothing outside the root is
\* returned.
VerifyRescansRegisteredRoot ==
    [][VerifyReturned =>
         LET root == root_of[resp'.id]
             old == dir_db[resp'.id]
         IN  /\ resp'.directory = root
             /\ KeySet(dir_db'[resp'.id]) = ReadableUnder(root)
             /\ ReadableUnder(root) \ KeySet(old) \subseteq SeqSet(resp'.added)
             /\ SeqSet(resp'.added) \subseteq FilesUnder(root)]_vars

\* The tracked files of a snapshot whose content is no longer the one stored,
\* and the tracked paths that are no longer files.
ChangedSince(old) ==
    {p \in KeySet(old) : IsFile(p) /\ ~HashRaises(p) /\ Get(old, p) # hash_file(p)}

GoneSince(old) == {p \in KeySet(old) : ~IsFile(p)}

\* C4: when the stored snapshot tracks the files of the registered root and
\* one tracked file has changed content since, verify returns that path alone
\* in modified and nothing in added and deleted; when one tracked file has
\* been deleted since and nothing else changed, verify returns that path alone
\* in deleted and nothing in added and modified.
EachChangeReportedOnce ==
    [][VerifyReturned =>
         LET root == root_of[resp'.id]
             old == dir_db[resp'.id]
             tracked == KeySet(old)
         IN  /\ (tracked = ReadableUnder(root) /\ Cardinality(ChangedSince(old)) = 1)
                 => /\ SeqSet(resp'.modified) = ChangedSince(old)
                    /\ resp'.added = <<>>
                    /\ resp'.deleted = <<>>
             /\ (/\ tracked \ GoneSince(old) = ReadableUnder(root)
                 /\ Cardinality(GoneSince(old)) = 1
                 /\ ChangedSince(old) = {})
                 => /\ SeqSet(resp'.deleted) = GoneSince(old)
                    /\ resp'.added = <<>>
                    /\ resp'.modified = <<>>]_vars

\* C5: when the watcher has processed the modification event of a tracked
\* file under the registered root, the verify that follows does not return
\* that file in modified; and an event for a tracked file whose content is
\* the one stored appends nothing to the change log.
LiveUpdateConvergence ==
    [][/\ (/\ VerifyReturned
           /\ resp.op = "event" /\ resp.status = 0
           /\ Has(dir_db[resp'.id], resp.path)
           /\ Under(root_of[resp'.id], resp.path))
          => resp.path \notin SeqSet(resp'.modified)
       /\ (resp'.op = "event" /\ resp'.status = 0 /\ resp'.path \in Files) =>
            \A id \in DOMAIN dir_db :
                (/\ Under(root_of[id], resp'.path)
                 /\ Has(dir_db[id], resp'.path)
                 /\ ~HashRaises(resp'.path)
                 /\ Get(dir_db[id], resp'.path) = hash_file(resp'.path))
                => change_log' = change_log]_vars

\* C6: a register of a directory returns as files_registered the number of
\* readable regular files under it and stores a snapshot of exactly those
\* paths, each once; files that cannot be fingerprinted do not make the
\* registration fail.
RegistrationCount ==
    [][(resp'.op = "register" /\ IsDir(Normpath(resp'.path))) =>
         LET root == Normpath(resp'.path)
             snapshot == dir_db'[Basename(root)]
         IN  /\ resp'.status = 200
             /\ resp'.files_registered = Cardinality(ReadableUnder(root))
             /\ KeySet(snapshot) = ReadableUnder(root)
             /\ NoDuplicates(Keys(snapshot))]_vars

\* C6 witness: a register has succeeded on a directory that holds a readable
\* file and a file that cannot be read.
RegistrationCountWitness ==
    /\ resp.op = "register" /\ resp.status = 200
    /\ resp.files_registered >= 1
    /\ \E f \in unreadable : Under(resp.directory, f)

\* C7: verify and list of an id that is not registered fail with 404 and
\* leave the catalog, the change log and the watcher subscriptions as they
\* were.
UnknownIdRejected ==
    [][(resp'.op \in {"verify", "list"} /\ resp'.id \notin DOMAIN dir_db) =>
         /\ resp'.status = 404
         /\ UNCHANGED <<dir_db, change_log, watches>>]_vars

\* C7 witness: a call with an unknown id has failed while another id is
\* registered.
UnknownIdRejectedWitness ==
    /\ resp.op \in {"verify", "list"}
    /\ resp.status = 404
    /\ resp.id \notin DOMAIN dir_db
    /\ DOMAIN dir_db # {}

\* C8: register of a path that is not an existing directory fails with 400
\* and leaves the catalog, the change log and the watcher subscriptions as
\* they were.
InvalidDirectoryRejected ==
    [][(resp'.op = "register" /\ ~IsDir(Normpath(resp'.path))) =>
         /\ resp'.status = 400
         /\ UNCHANGED <<dir_db, change_log, watches, events>>]_vars

\* C8 witness: a register of an invalid path has failed while a non-empty
\* snapshot is stored under the base name of that path.
InvalidDirectoryRejectedWitness ==
    /\ resp.op = "register" /\ resp.status = 400
    /\ Basename(Normpath(resp.path)) \in DOMAIN dir_db
    /\ dir_db[Basename(Normpath(resp.path))] # <<>>

\* C9: verify of a registered id whose registered root is no longer a
\* directory fails with DirectoryNotFound.
VanishedRootRejected ==
    [][(resp'.op = "verify" /\ resp'.id \in DOMAIN dir_db
          /\ ~IsDir(root_of[resp'.id])) =>
         /\ resp'.status # 200
         /\ resp'.error = "DirectoryNotFound"]_vars

\* What list is to return for the snapshot d: one entry for each tracked path
\* that is still a file, in the order of the file names.
ListsTracked(d, r) ==
    /\ {r.files[i].path : i \in 1..Len(r.files)} = {p \in KeySet(d) : IsFile(p)}
    /\ Len(r.files) = Cardinality({p \in KeySet(d) : IsFile(p)})
    /\ \A i \in 1..Len(r.files) : r.files[i].hash = Get(d, r.files[i].path)
    /\ \A i, j \in 1..Len(r.files) :
          i < j => NameRank(r.files[i].filename) <= NameRank(r.files[j].filename)
    /\ r.total_files = Len(r.files)

NoDirectoryPart(d) == Len(d) = 0 \/ Len(d[1][1]) <= 1

---------------------------------------------------------------------------
\* C11: the recent_changes a verify returns are the last min(RecentN, length)
\* entries of the one change log of the process, in the order they were
\* appended, whichever directory they were logged for; of a log longer than
\* RecentN the older entries are left out.
RecentIsLogTail ==
    [][VerifyReturned =>
         LET n == Len(change_log)
             k == IF n < RecentN THEN n ELSE RecentN
             rc == resp'.recent_changes
         IN  /\ Len(rc) = k
             /\ \A i \in 1..k : rc[i] = change_log[n - k + i]]_vars

\* C11 witness: verify of "proj" has returned RecentN entries of a longer log
\* that begins with an entry for b.bin, among them one logged for a.txt of
\* the directory registered as "sub".
RecentIsLogTailWitness ==
    /\ resp.op = "verify" /\ resp.status = 200 /\ resp.id = "proj"
    /\ Len(change_log) > RecentN
    /\ Len(resp.recent_changes) = RecentN
    /\ change_log[1] = <<"MODIFIED", F_b>>
    /\ "sub" \in DOMAIN dir_db
    /\ \E i \in 1..RecentN : resp.recent_changes[i] = <<"MODIFIED", F_a>>

---------------------------------------------------------------------------
\* The paths on_modified has logged for the id of the handler that is
\* part-way through, since that handler began.
LoggedDuringCall ==
    {change_log[i][2] : i \in {j \in (call.log0 + 1)..Len(change_log) :
                                  Basename(Dirname(change_log[j][2])) = call.id}}

\* C12: no update of the watcher is lost to a verify of the same id: when a
\* verify replaces the snapshot, every file on_modified has logged since that
\* verify began keeps the fingerprint on_modified stored for it (the rescan of
\* this verify began before the event, so that it is no later rescan).
NoLostUpdate ==
    [][(call.op = "verify" /\ VerifyReturned) =>
         \A f \in LoggedDuringCall :
            Get(dir_db'[call.id], f) = Get(dir_db[call.id], f)]_vars

\* C13: a snapshot is not seen half-built: while an id is registered again,
\* an event for a file that still has the fingerprint the snapshot held for
\* it when the registration began appends nothing to the change log.
NoHalfBuiltSnapshot ==
    [][(call.op = "register" /\ resp'.op = "event"
        /\ Has(call.prev, resp'.path) /\ ~HashRaises(resp'.path)
        /\ Get(call.prev, resp'.path) = hash_file(resp'.path)) =>
         change_log' = change_log]_vars

\* C14: whatever events and writes come between the lines of a verify, the
\* added, deleted and modified it returns are pairwise disjoint.
DiffClassesDisjoint ==
    [][VerifyReturned =>
         /\ SeqSet(resp'.added) \cap SeqSet(resp'.deleted) = {}
         /\ SeqSet(resp'.added) \cap SeqSet(resp'.modified) = {}
         /\ SeqSet(resp'.deleted) \cap SeqSet(resp'.modified) = {}]_vars

---------------------------------------------------------------------------
\* C15: a modification event stores no path outside the root registered for
\* the id whose snapshot it writes, and leaves alone the snapshot of every id
\* registered for a root the file does not lie under.
EventStaysInRoot ==
    [][resp'.op = "event" =>
         \A id \in DOMAIN dir_db :
            /\ \A p \in KeySet(dir_db'[id]) \ KeySet(dir_db[id]) :
                  Under(root_of[id], p)
            /\ ~Under(root_of[id], resp'.path) => dir_db'[id] = dir_db[id]]_vars

\* C16: every registered id has exactly one handler scheduled, on the root
\* it was registered for last, and none on another root of the same name.
OneSubscriptionPerId ==
    \A id \in DOMAIN root_of :
       /\ watches[root_of[id]] = 1
       /\ \A r \in Roots :
             (Basename(r) = id /\ r # root_of[id]) => watches[r] = 0

\* C17: an event for a directory changes neither catalog nor log; an event for
\* a readable file F below the root registered for an id appends exactly one
\* MODIFIED entry for F and sets only F's entry of that id's snapshot when F's
\* fingerprint is not the stored one (or F is not stored), and changes
\* neither catalog nor log when it is.
HandlerFrame ==
    [][resp'.op = "event" =>
         LET F == resp'.path
         IN  IF F \in Dirs THEN UNCHANGED <<dir_db, change_log>>
             ELSE \A id \in DOMAIN dir_db :
                    (Under(root_of[id], F) /\ ~HashRaises(F)) =>
                       IF Get(dir_db[id], F) # hash_file(F)
                       THEN /\ change_log' = Append(change_log, <<"MODIFIED", F>>)
                            /\ dir_db' = [dir_db EXCEPT
                                             ![id] = Put(@, F, hash_file(F))]
                       ELSE UNCHANGED <<dir_db, change_log>>]_vars

\* C18: an event for a file that cannot be read is skipped: nothing is raised
\* out of the handler, catalog and log stay as they are and the watcher goes
\* on dispatching.
UnreadableEventSkipped ==
    [][(resp'.op = "event" /\ resp'.path \in Files /\ HashRaises(resp'.path)) =>
         /\ resp'.status = 0
         /\ observer' = "running"
         /\ UNCHANGED <<dir_db, change_log>>]_vars

---------------------------------------------------------------------------
\* C19: the change log only grows at its end, and only a dispatched event
\* makes it grow: register, verify, list and every other step leave it as it
\* is, so that an entry keeps its position.
LogAppendOnly ==
    [][/\ IsPrefix(change_log, change_log')
       /\ resp'.op # "event" => change_log' = change_log]_vars

\* C19 witness: verify has answered with the two entries the log holds, and
\* the log holds them still.
LogAppendOnlyWitness ==
    /\ resp.op = "verify" /\ resp.status = 200
    /\ Len(change_log) = 2
    /\ resp.recent_changes = change_log

\* C20: before start_monitoring nothing is scheduled and nothing queued; once
\* stop_monitoring has returned no event is dispatched any more, and catalog
\* and change log stay as they are.
NoDispatchAfterShutdown ==
    [][/\ observer = "none" => (Scheduled = 0 /\ events = {})
       /\ observer = "stopped" =>
            (resp'.op # "event" /\ UNCHANGED <<dir_db, change_log>>)]_vars

\* C20 witness: a tracked file has been written after shutdown, while the
\* event of an earlier write is still queued and the snapshot still holds
\* another fingerprint for the file.
NoDispatchAfterShutdownWitness ==
    /\ observer = "stopped"
    /\ resp.op = "fs"
    /\ FileEvent(F_b) \in events
    /\ "proj" \in DOMAIN dir_db
    /\ ~HashRaises(F_b)
    /\ Get(dir_db["proj"], F_b) # hash_file(F_b)

====
